---- MODULE Spec2Model ----
(***************************************************************************)
(* Metadata_creation.py: scan a directory of audio files, extract the      *)
(* static attributes of each file, parse its stem with a regex or a        *)
(* delimiter, and write one CSV row per file.                              *)
(*                                                                         *)
(* Text is a sequence of one-character strings, so that splitting,         *)
(* matching, lower-casing and path comparison are computed, not assumed.   *)
(* An optional value is a sequence of length 0 (None) or 1 (Some).         *)
(***************************************************************************)
EXTENDS Integers, Sequences, FiniteSets, TLC

VARIABLES
    \* the run's inputs
    dirOk,          \* input_dir exists and is a directory
    fs,             \* the entries below input_dir
    exts,           \* args.exts
    recursive,      \* not args.no_recursive
    regex,          \* args.regex
    delimiter,      \* args.delimiter
    skipDuration,   \* args.skip_duration
    \* main's locals
    pc, exit, files, use_regex, use_split, rows, max_tokens, fieldnames,
    \* the output file
    opened, header, written,
    \* a call of get_duration_seconds
    suffix, mutagen, wav, duration

inputs == <<dirOk, fs, exts, recursive, regex, delimiter, skipDuration>>
locals == <<files, use_regex, use_split, rows, max_tokens, fieldnames>>
output == <<opened, header, written>>
probe  == <<suffix, mutagen, wav, duration>>
vars   == <<inputs, pc, exit, locals, output, probe>>

----------------------------------------------------------------------------
\* Bounds

MaxEntries == 2     \* directory entries below input_dir, in a run of main
MaxScanned == 3     \* directory entries below base, in a call of scan_directory
MaxLength  == 1     \* audio.info.length reported by the general probe
MaxFrames  == 2     \* wf.getnframes()
MaxRate    == 1     \* wf.getframerate()

----------------------------------------------------------------------------
\* Optional values and text

None    == <<>>
Some(v) == <<v>>

Range(s) == {s[i] : i \in DOMAIN s}

Max(a, b) == IF a >= b THEN a ELSE b

\* code point of a character, the order str comparison uses
Code(c) ==
    CASE c = "." -> 46 [] c = "3" -> 51
      [] c = "A" -> 65 [] c = "B" -> 66 [] c = "V" -> 86 [] c = "W" -> 87
      [] c = "_" -> 95
      [] c = "a" -> 97 [] c = "b" -> 98 [] c = "l" -> 108 [] c = "m" -> 109
      [] c = "p" -> 112 [] c = "s" -> 115 [] c = "v" -> 118 [] c = "w" -> 119
      [] OTHER -> 0

LowerChar(c) ==
    CASE c = "A" -> "a" [] c = "B" -> "b" [] c = "V" -> "v" [] c = "W" -> "w"
      [] OTHER -> c

\* str.lower()
Lower(s) == [i \in 1..Len(s) |-> LowerChar(s[i])]

\* str < str
RECURSIVE StrLess(_, _)
StrLess(s, t) ==
    IF t = <<>> THEN FALSE
    ELSE IF s = <<>> THEN TRUE
    ELSE IF Code(Head(s)) # Code(Head(t)) THEN Code(Head(s)) < Code(Head(t))
    ELSE StrLess(Tail(s), Tail(t))

\* Path < Path: the parts compared as a list of strings
RECURSIVE PathLess(_, _)
PathLess(p, q) ==
    IF q = <<>> THEN FALSE
    ELSE IF p = <<>> THEN TRUE
    ELSE IF Head(p) # Head(q) THEN StrLess(Head(p), Head(q))
    ELSE PathLess(Tail(p), Tail(q))

\* name.rfind('.'), 0 when there is none (positions from 1)
LastDot(name) ==
    LET D == {i \in 1..Len(name) : name[i] = "."}
    IN  IF D = {} THEN 0 ELSE CHOOSE i \in D : \A j \in D : j <= i

\* p.name, p.suffix, p.stem
Name(p) == p[Len(p)]

Suffix(p) ==
    LET n == Name(p)  i == LastDot(n)
    IN  IF 1 < i /\ i < Len(n) THEN SubSeq(n, i, Len(n)) ELSE <<>>

Stem(p) ==
    LET n == Name(p)  i == LastDot(n)
    IN  IF 1 < i /\ i < Len(n) THEN SubSeq(n, 1, i - 1) ELSE n

----------------------------------------------------------------------------
\* The directory tree

Kinds == {"file", "dir", "symlink_file", "symlink_dir", "symlink_broken", "fifo"}

Entry(parts, kind, size, target) ==
    [parts |-> parts, kind |-> kind, size |-> size, target |-> target]

EntryPool == {
    Entry(<< <<"a", "_", "b", ".", "w", "a", "v">> >>, "file", 3, <<>>),
    Entry(<< <<"b", ".", "W", "A", "V">> >>, "file", 5, <<>>),
    Entry(<< <<"a", "b", ".", "m", "p", "3">> >>, "file", 7, <<>>),
    Entry(<< <<"_", "a", ".", "w", "a", "v">> >>, "file", 2, <<>>),
    Entry(<< <<"B", "_", "a">> >>, "file", 1, <<>>),
    Entry(<< <<"s">> >>, "dir", 0, <<>>),
    Entry(<< <<"s">>, <<"b", "_", "a", "_", "b", ".", "w", "a", "v">> >>, "file", 4, <<>>),
    Entry(<< <<"l", ".", "w", "a", "v">> >>, "symlink_file", 3,
          << <<"s">>, <<"b", "_", "a", "_", "b", ".", "w", "a", "v">> >>),
    Entry(<< <<"m">> >>, "symlink_dir", 0, << <<"s">> >>),
    Entry(<< <<"l", ".", "m", "p", "3">> >>, "symlink_broken", 0, << <<"p">> >>),
    Entry(<< <<"p", ".", "w", "a", "v">> >>, "fifo", 0, <<>>) }

\* a tree: every entry's parent directory is in it
Trees(n) ==
    {t \in SUBSET EntryPool :
        /\ Cardinality(t) <= n
        /\ \A e \in t : Len(e.parts) > 1 =>
              \E d \in t : d.kind = "dir" /\ d.parts = SubSeq(e.parts, 1, Len(e.parts) - 1)}

EntryOf(tree, p) == CHOOSE e \in tree : e.parts = p

\* p.exists()
IsFile_exists(e) == e.kind # "symlink_broken"

\* p.is_file(): follows symlinks
IsFile(e) == e.kind \in {"file", "symlink_file"}

\* p.resolve(), relative to input_dir
Resolve(e) == IF e.kind \in {"symlink_file", "symlink_dir"} THEN e.target ELSE e.parts

----------------------------------------------------------------------------
\* scan_directory

ExtPool == { <<"w", "a", "v">>, <<".", "W", "A", "V">>, <<"m", "p", "3">> }

ExtArgs == {None} \cup {Some(S) : S \in SUBSET ExtPool}

\* `if exts:`
Truthy(x) == x # None /\ x[1] # {}

NormalizeExt(e) ==
    IF e # <<>> /\ e[1] = "." THEN Lower(e) ELSE <<".">> \o Lower(e)

NormalizeExts(x) == {NormalizeExt(e) : e \in x[1]}

\* base.rglob("*") or base.iterdir(): the paths the iterator yields
Iterated(tree, rec) ==
    {e.parts : e \in {d \in tree : rec \/ Len(d.parts) = 1}}

\* the orders in which the iterator may yield them
Orders(S) ==
    {o \in [1..Cardinality(S) -> S] : \A i, j \in DOMAIN o : o[i] = o[j] => i = j}

KeepFile(tree, x, p) ==
    /\ IsFile(EntryOf(tree, p))
    /\ Truthy(x) => Lower(Suffix(p)) \in NormalizeExts(x)

RECURSIVE Collect(_, _, _)
Collect(tree, x, order) ==
    IF order = <<>> THEN <<>>
    ELSE IF KeepFile(tree, x, Head(order))
         THEN <<Head(order)>> \o Collect(tree, x, Tail(order))
         ELSE Collect(tree, x, Tail(order))

RECURSIVE Insert(_, _)
Insert(p, s) ==
    IF s = <<>> THEN <<p>>
    ELSE IF PathLess(Head(s), p) THEN <<Head(s)>> \o Insert(p, Tail(s))
    ELSE <<p>> \o s

RECURSIVE Sorted(_)
Sorted(s) == IF s = <<>> THEN <<>> ELSE Insert(Head(s), Sorted(Tail(s)))

\* the list returned as collected
scan_directory_unsorted(tree, x, order) == Collect(tree, x, order)

scan_directory(tree, x, order) == Sorted(Collect(tree, x, order))

----------------------------------------------------------------------------
\* get_duration_seconds

\* what MutagenFile(str(path)) does: raises, returns a falsy object, an
\* object whose info has no length, or one whose info.length is `length`
MutagenOutcomes ==
    {[how |-> h, length |-> 0] : h \in {"raise", "falsy", "no_length"}}
    \cup {[how |-> "length", length |-> l] : l \in 0..MaxLength}

\* what wave.open(...) and the two getters do
WaveOutcomes ==
    {[how |-> "raise", frames |-> 0, framerate |-> 0]}
    \cup {[how |-> "ok", frames |-> f, framerate |-> r] : f \in 0..MaxFrames, r \in 0..MaxRate}

\* a float, kept as the quotient it was computed from
Float(n, d) == [num |-> n, den |-> d]

WavSuffixes == { <<".", "w", "a", "v">> }

\* the suffix compared as spelled
get_duration_seconds_spelled(sfx, m, w) ==
    IF m.how = "length" THEN Some(Float(m.length, 1))
    ELSE IF sfx \in WavSuffixes /\ w.how = "ok" /\ w.framerate > 0
         THEN Some(Float(w.frames, w.framerate))
    ELSE None

get_duration_seconds(sfx, m, w) ==
    IF m.how = "length" THEN Some(Float(m.length, 1))
    ELSE IF Lower(sfx) \in WavSuffixes /\ w.how = "ok" /\ w.framerate > 0
         THEN Some(Float(w.frames, w.framerate))
    ELSE None

----------------------------------------------------------------------------
\* The filename parser

\* A pattern is a sequence of items: the literal `_`, or a named group
\* (?P<n>[^_]+), optional when written (?P<n>[^_]+)?
Lit         == [k |-> "lit", n |-> "", opt |-> FALSE]
Group(n)    == [k |-> "grp", n |-> n, opt |-> FALSE]
OptGroup(n) == [k |-> "grp", n |-> n, opt |-> TRUE]

RxSujetAge == <<Group("sujet"), Lit, Group("age")>>
RxOptAge   == <<Group("sujet"), Lit, OptGroup("age")>>
RxName     == <<Group("name")>>
RxLit      == <<Lit>>
RxDup      == <<Group("sujet"), Group("sujet")>>
RxEmpty    == <<>>

RegexArgs ==
    {None} \cup {Some(r) : r \in {RxSujetAge, RxOptAge, RxName, RxLit, RxDup, RxEmpty}}

DelimiterArgs == {None, Some(<<"_">>), Some(<<>>)}

IsGroup(it) == it.k = "grp"

\* list(regex.groupindex.keys()): the group names in the order of the pattern
GroupIndex(items) ==
    [i \in 1..Len(SelectSeq(items, IsGroup)) |-> SelectSeq(items, IsGroup)[i].n]

\* re.compile raises on a redefined group name
Compiles(items) ==
    \A i, j \in DOMAIN items :
        (items[i].k = "grp" /\ items[j].k = "grp" /\ items[i].n = items[j].n) => i = j

NoMatch == [ok |-> FALSE, caps |-> <<>>]

\* the length of the longest prefix of s without `_`
Run(s) ==
    LET U == {i \in 1..Len(s) : s[i] = "_"}
    IN  IF U = {} THEN Len(s) ELSE (CHOOSE i \in U : \A j \in U : i <= j) - 1

Drop(s, k) == SubSeq(s, k + 1, Len(s))

\* regex.match(s): anchored at the start, greedy, backtracking
RECURSIVE Match(_, _)
Match(items, s) ==
    IF items = <<>> THEN [ok |-> TRUE, caps |-> <<>>]
    ELSE
      LET it   == Head(items)
          rest == Tail(items)
      IN  IF it.k = "lit"
          THEN IF s # <<>> /\ s[1] = "_" THEN Match(rest, Tail(s)) ELSE NoMatch
          ELSE
            LET Good == {k \in 1..Run(s) : Match(rest, Drop(s, k)).ok}
            IN  IF Good # {}
                THEN LET k == CHOOSE g \in Good : \A h \in Good : h <= g
                     IN  [ok |-> TRUE,
                          caps |-> (it.n :> Some(SubSeq(s, 1, k))) @@ Match(rest, Drop(s, k)).caps]
                ELSE IF it.opt /\ Match(rest, s).ok
                THEN [ok |-> TRUE, caps |-> (it.n :> None) @@ Match(rest, s).caps]
                ELSE NoMatch

\* the position of the first occurrence of d in s, 0 when there is none
Find(s, d) ==
    LET I == {i \in 1..(Len(s) - Len(d) + 1) : SubSeq(s, i, i + Len(d) - 1) = d}
    IN  IF I = {} THEN 0 ELSE CHOOSE i \in I : \A j \in I : i <= j

\* s.split(d), d not empty
RECURSIVE Split(_, _)
Split(s, d) ==
    IF Find(s, d) = 0 THEN <<s>>
    ELSE <<SubSeq(s, 1, Find(s, d) - 1)>> \o Split(Drop(s, Find(s, d) + Len(d) - 1), d)

TokenNames ==
    <<"token_1", "token_2", "token_3", "token_4", "token_5", "token_6", "token_7", "token_8">>

TokenCol(i) == TokenNames[i]

TokenIndex(c) == CHOOSE i \in DOMAIN TokenNames : TokenNames[i] = c

----------------------------------------------------------------------------
\* main: one row per file

BaseCols == <<"filepath", "filename", "name", "ext", "size_bytes", "duration_seconds">>

\* lines 106-113
BaseRow(e, size, dur) ==
    [c \in Range(BaseCols) |->
        CASE c = "filepath"         -> Some(Resolve(e))
          [] c = "filename"         -> Some(Name(e.parts))
          [] c = "name"             -> Some(Stem(e.parts))
          [] c = "ext"              -> Some(Lower(Suffix(e.parts)))
          [] c = "size_bytes"       -> size
          [] c = "duration_seconds" -> dur]

\* for k, v in m.groupdict().items(): row[k] = v
AssignAll(row, caps) ==
    [c \in DOMAIN row \cup DOMAIN caps |-> IF c \in DOMAIN caps THEN caps[c] ELSE row[c]]

\* for g in regex.groupindex.keys(): row.setdefault(g, None)
SetDefaults(row, names) ==
    [c \in DOMAIN row \cup names |-> IF c \in DOMAIN row THEN row[c] ELSE None]

\* lines 116-123
RegexFields(row, items, stem) ==
    IF Match(items, stem).ok
    THEN AssignAll(row, Match(items, stem).caps)
    ELSE SetDefaults(row, Range(GroupIndex(items)))

\* for i, t in enumerate(tokens, start=1): row[f"token_{i}"] = t
TokenFields(row, tokens) ==
    [c \in DOMAIN row \cup {TokenCol(i) : i \in DOMAIN tokens} |->
        IF c \in DOMAIN row THEN row[c] ELSE Some(tokens[TokenIndex(c)])]

\* range(1, max_tokens)
TokenCols_short(split, n) == IF split THEN [i \in 1..(n - 1) |-> TokenCol(i)] ELSE <<>>

\* lines 134, 137-140, 143-144
TokenCols(split, n) == IF split THEN [i \in 1..n |-> TokenCol(i)] ELSE <<>>

ExtraCols(rx, re) == IF rx /\ re # None THEN GroupIndex(re[1]) ELSE <<>>

Fieldnames(rx, re, split, n) == BaseCols \o ExtraCols(rx, re) \o TokenCols(split, n)

\* the rows left as parsed
EnsureKeys_skipped(row, names) == row

\* lines 147-150
EnsureKeys(row, names) == SetDefaults(row, Range(names))

\* writer.writerow(r): the values in the order of the fieldnames
Record(row, names) == [i \in DOMAIN names |-> row[names[i]]]

\* the probe outcomes main's runs draw from
MainMutagen ==
    {o \in MutagenOutcomes : o.how = "raise" \/ (o.how = "length" /\ o.length = MaxLength)}

MainWave ==
    {o \in WaveOutcomes : o.how = "raise" \/ (o.frames = MaxFrames /\ o.framerate = MaxRate)}

MainExts == {None, Some({ <<"w", "a", "v">> })}

IdleMutagen == [how |-> "raise", length |-> 0]
IdleWave    == [how |-> "raise", frames |-> 0, framerate |-> 0]

Init ==
    /\ dirOk \in BOOLEAN
    /\ fs \in IF dirOk THEN Trees(MaxEntries) ELSE {{}}
    /\ exts \in MainExts
    /\ recursive \in BOOLEAN
    /\ regex \in RegexArgs
    /\ delimiter \in DelimiterArgs
    /\ skipDuration \in BOOLEAN
    /\ pc = "check" /\ exit = None
    /\ files = <<>> /\ use_regex = FALSE /\ use_split = FALSE
    /\ rows = <<>> /\ max_tokens = 0 /\ fieldnames = <<>>
    /\ opened = FALSE /\ header = None /\ written = <<>>
    /\ suffix = <<>> /\ mutagen = IdleMutagen /\ wav = IdleWave /\ duration = None

\* sys.exit(1), or an exception that leaves main
Fail ==
    /\ pc' = "done"
    /\ exit' = Some(1)

\* lines 75-78
CheckInputDir ==
    /\ pc = "check"
    /\ IF dirOk THEN pc' = "scan" /\ exit' = exit ELSE Fail
    /\ UNCHANGED <<inputs, locals, output, probe>>

\* the scan's result used without the emptiness test
Scan_unchecked ==
    /\ pc = "scan"
    /\ \E order \in Orders(Iterated(fs, recursive)) :
          files' = scan_directory(fs, exts, order)
    /\ pc' = "setup" /\ exit' = exit
    /\ UNCHANGED <<inputs, use_regex, use_split, rows, max_tokens, fieldnames, output, probe>>

\* lines 80-83
Scan ==
    /\ pc = "scan"
    /\ \E order \in Orders(Iterated(fs, recursive)) :
          files' = scan_directory(fs, exts, order)
    /\ IF files' = <<>> THEN Fail ELSE pc' = "setup" /\ exit' = exit
    /\ UNCHANGED <<inputs, use_regex, use_split, rows, max_tokens, fieldnames, output, probe>>

\* the delimiter alone decides
UseSplit_alone(delim, rx) == delim # None

\* line 87
UseSplit(delim, rx) == delim # None /\ ~rx

\* line 85: bool(args.regex)
UseRegex(re) == re # None /\ re[1] # <<>>

\* lines 85-90
Setup ==
    /\ pc = "setup"
    /\ use_regex' = UseRegex(regex)
    /\ use_split' = UseSplit(delimiter, use_regex')
    /\ rows' = <<>>
    /\ max_tokens' = 0
    /\ IF use_regex' /\ ~Compiles(regex[1]) THEN Fail ELSE pc' = "loop" /\ exit' = exit
    /\ UNCHANGED <<inputs, files, fieldnames, output, probe>>

\* p.stat() outside a try: its failure leaves main
ProcessFile_statRaises ==
    /\ pc = "loop"
    /\ Len(rows) < Len(files)
    /\ \E statOk \in BOOLEAN, m \in MainMutagen, w \in MainWave :
          LET e    == EntryOf(fs, files[Len(rows) + 1])
              dur  == IF skipDuration THEN None
                      ELSE get_duration_seconds(Suffix(e.parts), m, w)
              row  == BaseRow(e, Some(e.size), dur)
              stem == Stem(e.parts)
          IN  IF ~statOk
              THEN Fail /\ UNCHANGED <<rows, max_tokens>>
              ELSE IF use_regex
              THEN /\ rows' = Append(rows, RegexFields(row, regex[1], stem))
                   /\ UNCHANGED <<max_tokens, pc, exit>>
              ELSE IF use_split
              THEN IF delimiter[1] = <<>>
                   THEN Fail /\ UNCHANGED <<rows, max_tokens>>
                   ELSE /\ rows' = Append(rows, TokenFields(row, Split(stem, delimiter[1])))
                        /\ max_tokens' = Max(max_tokens, Len(Split(stem, delimiter[1])))
                        /\ UNCHANGED <<pc, exit>>
              ELSE /\ rows' = Append(rows, row)
                   /\ UNCHANGED <<max_tokens, pc, exit>>
    /\ UNCHANGED <<inputs, files, use_regex, use_split, fieldnames, output, probe>>

\* lines 92-131, one iteration
ProcessFile ==
    /\ pc = "loop"
    /\ Len(rows) < Len(files)
    /\ \E statOk \in BOOLEAN, m \in MainMutagen, w \in MainWave :
          LET e    == EntryOf(fs, files[Len(rows) + 1])
              size == IF statOk THEN Some(e.size) ELSE None
              dur  == IF skipDuration THEN None
                      ELSE get_duration_seconds(Suffix(e.parts), m, w)
              row  == BaseRow(e, size, dur)
              stem == Stem(e.parts)
          IN  IF use_regex
              THEN /\ rows' = Append(rows, RegexFields(row, regex[1], stem))
                   /\ UNCHANGED <<max_tokens, pc, exit>>
              ELSE IF use_split
              THEN IF delimiter[1] = <<>>
                   THEN Fail /\ UNCHANGED <<rows, max_tokens>>
                   ELSE /\ rows' = Append(rows, TokenFields(row, Split(stem, delimiter[1])))
                        /\ max_tokens' = Max(max_tokens, Len(Split(stem, delimiter[1])))
                        /\ UNCHANGED <<pc, exit>>
              ELSE /\ rows' = Append(rows, row)
                   /\ UNCHANGED <<max_tokens, pc, exit>>
    /\ UNCHANGED <<inputs, files, use_regex, use_split, fieldnames, output, probe>>

\* lines 133-150
BuildSchema ==
    /\ pc = "loop"
    /\ Len(rows) = Len(files)
    /\ fieldnames' = Fieldnames(use_regex, regex, use_split, max_tokens)
    /\ rows' = [i \in DOMAIN rows |-> EnsureKeys(rows[i], fieldnames')]
    /\ pc' = "open"
    /\ UNCHANGED <<inputs, exit, files, use_regex, use_split, max_tokens, output, probe>>

\* lines 153-155: out_path.open("w") succeeds or raises
OpenOutput ==
    /\ pc = "open"
    /\ \E ok \in BOOLEAN :
          IF ok THEN opened' = TRUE /\ pc' = "header" /\ exit' = exit
          ELSE Fail /\ UNCHANGED opened
    /\ UNCHANGED <<inputs, locals, header, written, probe>>

\* lines 156-157
WriteHeader ==
    /\ pc = "header"
    /\ \E ok \in BOOLEAN :
          IF ok THEN header' = Some(fieldnames) /\ pc' = "rows" /\ exit' = exit
          ELSE Fail /\ UNCHANGED header
    /\ UNCHANGED <<inputs, locals, opened, written, probe>>

\* lines 158-159, one iteration: a key outside the fieldnames or a failed
\* write raises
WriteRow ==
    /\ pc = "rows"
    /\ Len(written) < Len(rows)
    /\ LET r == rows[Len(written) + 1]
       IN  \E ok \in BOOLEAN :
              IF ok /\ DOMAIN r \subseteq Range(fieldnames)
              THEN written' = Append(written, Record(r, fieldnames)) /\ UNCHANGED <<pc, exit>>
              ELSE Fail /\ UNCHANGED written
    /\ UNCHANGED <<inputs, locals, opened, header, probe>>

\* line 160
Finish ==
    /\ pc = "rows"
    /\ Len(written) = Len(rows)
    /\ pc' = "done"
    /\ exit' = Some(0)
    /\ UNCHANGED <<inputs, locals, output, probe>>

Next ==
    \/ CheckInputDir
    \/ Scan
    \/ Setup
    \/ ProcessFile
    \/ BuildSchema
    \/ OpenOutput
    \/ WriteHeader
    \/ WriteRow
    \/ Finish

Spec == Init /\ [][Next]_vars

----------------------------------------------------------------------------
\* scan_directory called on its own

InitScan ==
    /\ dirOk = TRUE
    /\ fs \in Trees(MaxScanned)
    /\ exts \in ExtArgs
    /\ recursive \in BOOLEAN
    /\ regex = None /\ delimiter = None /\ skipDuration = FALSE
    /\ pc = "scan_call" /\ exit = None
    /\ files = <<>> /\ use_regex = FALSE /\ use_split = FALSE
    /\ rows = <<>> /\ max_tokens = 0 /\ fieldnames = <<>>
    /\ opened = FALSE /\ header = None /\ written = <<>>
    /\ suffix = <<>> /\ mutagen = IdleMutagen /\ wav = IdleWave /\ duration = None

CallScan ==
    /\ pc = "scan_call"
    /\ \E order \in Orders(Iterated(fs, recursive)) :
          files' = scan_directory(fs, exts, order)
    /\ pc' = "scan_ret"
    /\ UNCHANGED <<inputs, exit, use_regex, use_split, rows, max_tokens, fieldnames, output, probe>>

NextScan == CallScan

SpecScan == InitScan /\ [][NextScan]_vars

----------------------------------------------------------------------------
\* get_duration_seconds called on its own

SuffixPool ==
    { <<".", "w", "a", "v">>, <<".", "W", "A", "V">>, <<".", "m", "p", "3">>, <<>> }

InitProbe ==
    /\ dirOk = TRUE /\ fs = {} /\ exts = None /\ recursive = TRUE
    /\ regex = None /\ delimiter = None /\ skipDuration = FALSE
    /\ pc = "probe_call" /\ exit = None
    /\ files = <<>> /\ use_regex = FALSE /\ use_split = FALSE
    /\ rows = <<>> /\ max_tokens = 0 /\ fieldnames = <<>>
    /\ opened = FALSE /\ header = None /\ written = <<>>
    /\ suffix \in SuffixPool
    /\ mutagen \in MutagenOutcomes
    /\ wav \in WaveOutcomes
    /\ duration = None

CallProbe ==
    /\ pc = "probe_call"
    /\ duration' = get_duration_seconds(suffix, mutagen, wav)
    /\ pc' = "probe_ret"
    /\ UNCHANGED <<inputs, exit, locals, output, suffix, mutagen, wav>>

NextProbe == CallProbe

SpecProbe == InitProbe /\ [][NextProbe]_vars

----------------------------------------------------------------------------
\* Properties

\* main has built the schema and is at, or past, the opening of the output
WriteStage == pc \in {"open", "header", "rows"} \/ (pc = "done" /\ fieldnames # <<>>)

TokenNameSet == Range(TokenNames)

\* main has chosen the parser's mode and is in, or past, the loop over the files
ModeChosen == pc \in {"loop", "open", "header", "rows"} \/ rows # <<>>

\* C1: when main starts writing the CSV, every row's set of keys is exactly
\* the set of the schema's column names, in every mode and for every stem.
C1_RowsRectangular ==
    WriteStage => \A i \in DOMAIN rows : DOMAIN rows[i] = Range(fieldnames)

\* a row that got a column from the normalisation: a stem with fewer tokens
\* than the maximum
C1_Witness ==
    /\ pc = "open"
    /\ use_split
    /\ \E i \in DOMAIN rows :
          /\ TokenCol(max_tokens) \in DOMAIN rows[i]
          /\ rows[i][TokenCol(max_tokens)] = None

\* C2 as stated: every run that reaches the write stage writes as many data
\* rows as scan_directory returned paths.
C2_Stated ==
    (pc = "done" /\ fieldnames # <<>>) => Len(written) = Len(files)

\* C2 as amended: a run that reaches the write stage holds one row per
\* scanned path, in the scan's order; a run that exits 0 has written every
\* one of them in that order; a failed stat or probe leaves the field absent
\* and aborts nothing: a run over a valid directory, a non-empty scan and a
\* usable parser configuration always reaches the write stage.
C2_RowPerFile ==
    /\ WriteStage =>
          /\ Len(rows) = Len(files)
          /\ \A i \in DOMAIN rows :
                /\ rows[i]["filename"] = Some(Name(files[i]))
                /\ rows[i]["size_bytes"] \in {None, Some(EntryOf(fs, files[i]).size)}
    /\ exit = Some(0) =>
          /\ Len(written) = Len(files)
          /\ \A i \in DOMAIN written : written[i] = Record(rows[i], fieldnames)
    /\ (pc = "done" /\ fieldnames = <<>>) =>
          \/ ~dirOk
          \/ files = <<>>
          \/ (UseRegex(regex) /\ ~Compiles(regex[1]))
          \/ (~UseRegex(regex) /\ delimiter = Some(<<>>))

\* a finished run of two files, one of them with a failed stat
C2_Witness ==
    /\ exit = Some(0)
    /\ Len(files) > 1
    /\ Len(written) = Len(files)
    /\ \E i, j \in DOMAIN rows :
          rows[i]["size_bytes"] = None /\ rows[j]["size_bytes"] # None

\* C3: in token-split mode the extra columns are token_1..token_K, K the
\* largest number of substrings any stem splits into; a row holds its stem's
\* i-th substring in token_i and nothing in the columns above its own count.
C3_TokenColumns ==
    (WriteStage /\ use_split) =>
        LET d    == delimiter[1]
            K    == Len(fieldnames) - Len(BaseCols)
            \* the number of tokens row i holds
            N(i) == Cardinality({j \in 1..K : rows[i][TokenCol(j)] # None})
            Tok(i, j) == rows[i][TokenCol(j)][1]
            \* the tokens of row i joined by the delimiter
            RECURSIVE Join(_, _)
            Join(i, j) == IF j = N(i) THEN Tok(i, j) ELSE Tok(i, j) \o d \o Join(i, j + 1)
        IN  /\ K = max_tokens
            /\ fieldnames = BaseCols \o [j \in 1..K |-> TokenCol(j)]
            /\ \E i \in DOMAIN rows : N(i) = K
            /\ \A i \in DOMAIN rows :
                  /\ N(i) >= 1
                  /\ \A j \in 1..K : (rows[i][TokenCol(j)] # None) <=> (j <= N(i))
                  /\ \A j \in 1..N(i) : Find(Tok(i, j), d) = 0
                  /\ Join(i, 1) = Stem(files[i])

\* two stems with different token counts, the shorter one padded
C3_Witness ==
    /\ pc = "open"
    /\ use_split
    /\ max_tokens > 1
    /\ \E i, j \in DOMAIN rows :
          /\ rows[i][TokenCol(max_tokens)] = None
          /\ rows[j][TokenCol(max_tokens)] # None
          /\ rows[j][TokenCol(1)] = Some(<<>>)

\* C4: in regex mode a row holds every declared group: the captured text
\* when the stem matches, an absent value when it does not.
C4_RegexColumns ==
    (pc \in {"loop", "open", "header", "rows"} /\ use_regex) =>
        \A i \in DOMAIN rows :
            LET m == Match(regex[1], Stem(files[i]))
            IN  \A g \in Range(GroupIndex(regex[1])) :
                    /\ g \in DOMAIN rows[i]
                    /\ rows[i][g] = IF m.ok THEN m.caps[g] ELSE None

\* C5 as stated: whenever both a regex and a delimiter are given the parser
\* runs in regex mode and the schema has no token column.
C5_Stated ==
    (regex # None /\ delimiter # None /\ ModeChosen) =>
        /\ use_regex
        /\ ~use_split
        /\ Range(fieldnames) \cap TokenNameSet = {}

\* C5 as amended: whenever a non-empty regex and a delimiter are given the
\* parser runs in regex mode for every file, the extra columns are the
\* regex's named groups and no column comes from token splitting; no schema
\* has both regex-group columns and token columns.
C5_RegexPrecedence ==
    /\ (regex # None /\ regex[1] # <<>> /\ delimiter # None /\ ModeChosen) =>
          /\ use_regex
          /\ ~use_split
          /\ max_tokens = 0
          /\ \A i \in DOMAIN rows : DOMAIN rows[i] \cap TokenNameSet = {}
          /\ WriteStage => fieldnames = BaseCols \o GroupIndex(regex[1])
    /\ WriteStage =>
          \/ fieldnames = BaseCols \o ExtraCols(use_regex, regex) /\ ~use_split
          \/ fieldnames = BaseCols \o TokenCols(use_split, max_tokens) /\ ~use_regex

\* both given, a stem with the delimiter in it, parsed by the regex
C5_Witness ==
    /\ pc = "open"
    /\ regex = Some(RxSujetAge)
    /\ delimiter = Some(<<"_">>)
    /\ \E i \in DOMAIN rows : rows[i]["age"] # None

\* C6: scan_directory returns, sorted by path and without duplicates, exactly
\* the files below base that pass the filter: direct children only when not
\* recursive; every file when exts is empty or absent, otherwise the files
\* whose lower-cased suffix is a lower-cased entry of exts with its leading
\* dot (so `wav` keeps both `b.WAV` and `a_b.wav`).
C6_ScanResult ==
    pc = "scan_ret" =>
        LET Dotted(x) == IF x # <<>> /\ x[1] = "." THEN x ELSE <<".">> \o x
            Passes(e) ==
                /\ IsFile(e)
                /\ recursive \/ Len(e.parts) = 1
                /\ \/ exts = None
                   \/ exts[1] = {}
                   \/ \E x \in exts[1] : Lower(Suffix(e.parts)) = Lower(Dotted(x))
        IN  /\ Range(files) = {e.parts : e \in {f \in fs : Passes(f)}}
            /\ \A i, j \in DOMAIN files : i < j => PathLess(files[i], files[j])
            /\ (exts = Some({ <<"w", "a", "v">> }) /\ recursive) =>
                  \A e \in fs : (e.kind = "file" /\ Lower(Suffix(e.parts)) = <<".", "w", "a", "v">>)
                                    => e.parts \in Range(files)

\* the filter `wav` keeps an upper-case and a nested lower-case file and
\* drops a third one
C6_Witness ==
    /\ pc = "scan_ret"
    /\ exts = Some({ <<"w", "a", "v">> })
    /\ Len(files) > 1
    /\ \E i \in DOMAIN files : Suffix(files[i]) = <<".", "W", "A", "V">>
    /\ \E e \in fs : IsFile(e) /\ e.parts \notin Range(files)

\* C7 as stated: an entry is returned only if it is a regular file and not a
\* symlink.
C7_Stated ==
    pc = "scan_ret" => \A i \in DOMAIN files : EntryOf(fs, files[i]).kind = "file"

\* C7 as amended: an entry is returned only if it is a regular file or a
\* symlink whose target is a regular file; directories, special files,
\* symlinks to directories and broken symlinks are never returned.
C7_OnlyFiles ==
    pc = "scan_ret" =>
        \A i \in DOMAIN files : EntryOf(fs, files[i]).kind \in {"file", "symlink_file"}

\* a scan that returned a symlink to a file and left another entry out
C7_Witness ==
    /\ pc = "scan_ret"
    /\ \E i \in DOMAIN files : EntryOf(fs, files[i]).kind = "symlink_file"
    /\ \E e \in fs : e.kind \in {"dir", "fifo", "symlink_dir", "symlink_broken"}
                        /\ (recursive \/ Len(e.parts) = 1)

\* C8: the output file is opened only after the directory check passed, the
\* scan returned a file and every file was processed; a run on a missing
\* directory or an empty scan ends with a non-zero status and the output
\* unopened; status 0 comes only after the header and every row were written.
C8_ExitStatus ==
    /\ opened => (dirOk /\ files # <<>> /\ Len(rows) = Len(files))
    /\ (pc = "done" /\ (~dirOk \/ files = <<>>)) => (exit = Some(1) /\ ~opened)
    /\ exit = Some(0) =>
          (opened /\ header = Some(fieldnames) /\ Len(written) = Len(rows))
    /\ pc = "done" <=> exit # None

\* a directory with entries of which the scan matched none
C8_Witness ==
    /\ pc = "done"
    /\ dirOk
    /\ fs # {}
    /\ files = <<>>
    /\ exit = Some(1)

====
